---- MODULE Spec2Model ----
(***************************************************************************)
(* The symbol codec ("PentaCodec") of src/src/SymbolCodec.c: the three     *)
(* character tables and their initialisation, the cipher codec             *)
(* (encodePenta, decodeCipher), the penta packer (encode) and the wire     *)
(* reader (readSymbol).                                                    *)
(*                                                                         *)
(* Number representation.  TLC's integers are 32-bit, so                   *)
(*   - a jInt is a TLC integer in -2^31 .. 2^31-1 (two's complement value);*)
(*     the operations that wrap are written so that no intermediate value  *)
(*     leaves that range;                                                  *)
(*   - a jLong is the record [l0, l1, l2] of its bits 0..29, 30..59 and    *)
(*     60..63, each limb a natural number;                                 *)
(*   - a string is a sequence of UTF-16 code units; Null is the null       *)
(*     reference.                                                          *)
(***************************************************************************)
EXTENDS Integers, Sequences, FiniteSets, TLC

VARIABLES
    pentas,          \* jInt pentas[128]
    plength,         \* jInt plength[128]
    characters,      \* jChar characters[1024]
    WILDCARD_CIPHER, \* the exported global jInt
    phase,           \* "load" while the static initialisers have not run, then "run"
    parseError,      \* the code last handed to setParseError, "none" if never
    initPc,          \* where a running initSymbolCodec call stands; at "idle" if none runs
    inits,           \* completed initSymbolCodec calls (capped)
    pentaOut,        \* the caller's jLong that decodeCipher writes through its OUT pointer
    in,              \* the bytes of the BufferedInput not yet consumed
    pending,         \* the symbols written to the stream and not yet read
    buffer,          \* the caller's scratch char[] of readSymbol
    result,          \* the caller's String[1] result slot of readSymbol
    call             \* the last operation performed, with its arguments and outcome

vars == <<pentas, plength, characters, WILDCARD_CIPHER, phase, parseError, initPc, inits,
          pentaOut, in, pending, buffer, result, call>>

-----------------------------------------------------------------------------
(* Character codes the source names.                                       *)

penta_length == 128
ChA == 65
ChZ == 90
ChDot == 46
ChSlash == 47
ChDollar == 36
ChQuote == 39
ChBacktick == 96
ChStar == 42

Null == << -1 >>        \* the null String reference (no code unit is negative)

-----------------------------------------------------------------------------
(* jInt: 32-bit two's complement.                                          *)

P30 == 2^30

\* x >> 30 without the cast: the sign bit is carried in
STag(x) == IF x >= 0 THEN x \div P30 ELSE IF x >= -P30 THEN -1 ELSE -2

\* (unsigned jInt)x >> 30
UTag(x) == IF x >= 0 THEN x \div P30 ELSE IF x >= -P30 THEN 3 ELSE 2

\* the value decodeCipher switches on
cipherTag(cipher) == UTag(cipher)

\* x & 0x3FFFFFFF
Low30(x) == IF x >= 0 THEN x % P30
            ELSE IF x >= -P30 THEN x + P30
            ELSE (x + P30) + P30

\* the jInt whose top two bits are tag and whose low 30 bits are lo
MkInt(tag, lo) == CASE tag = 0 -> lo
                    [] tag = 1 -> P30 + lo
                    [] tag = 2 -> (lo - P30) - P30
                    [] tag = 3 -> lo - P30

\* x + k * 0x40000000 in 32-bit wrapping arithmetic (k in 0..3)
AddTag(x, k) == MkInt((UTag(x) + k) % 4, Low30(x))

-----------------------------------------------------------------------------
(* jLong: three limbs, value = l2 * 2^60 + l1 * 2^30 + l0.                  *)

LZero == [l0 |-> 0, l1 |-> 0, l2 |-> 0]

\* (jLong)n for a jInt 0 <= n < 2^31
LFromNat(n) == [l0 |-> n % P30, l1 |-> n \div P30, l2 |-> 0]

\* x << n for 0 <= n < 64 (bits shifted past bit 63 are lost)
RECURSIVE LShl(_, _)
LShl(x, n) ==
    IF n > 30 THEN LShl(LShl(x, 30), n - 30)
    ELSE LET keep == 2^(30 - n)
             top  == IF n >= 4 THEN 0 ELSE (x.l2 % (2^(4 - n))) * (2^n)
         IN  [l0 |-> (x.l0 % keep) * (2^n),
              l1 |-> (x.l1 % keep) * (2^n) + (x.l0 \div keep),
              l2 |-> (top + (x.l1 \div keep)) % 16]

\* x >>> n for 0 <= n < 64
RECURSIVE LShr(_, _)
LShr(x, n) ==
    IF n > 30 THEN LShr(LShr(x, 30), n - 30)
    ELSE [l0 |-> (x.l0 \div (2^n)) + (x.l1 % (2^n)) * (2^(30 - n)),
          l1 |-> (x.l1 \div (2^n)) + (x.l2 % (2^n)) * (2^(30 - n)),
          l2 |-> x.l2 \div (2^n)]

\* x + y in 64-bit wrapping arithmetic
LAdd(x, y) ==
    LET s0 == x.l0 + y.l0
        s1 == x.l1 + y.l1 + (s0 \div P30)
    IN  [l0 |-> s0 % P30, l1 |-> s1 % P30,
         l2 |-> (x.l2 + y.l2 + (s1 \div P30)) % 16]

\* (jInt)x : the low 32 bits
LToInt(x) == MkInt(x.l1 % 4, x.l0)

\* (jInt)((unsigned jLong)x >> 30) : bits 30..61
LShr30ToInt(x) == MkInt(x.l2 % 4, x.l1)

\* (jInt)x & 0x3FFFFFFF
LLow30(x) == x.l0

\* (x >>> n) != 0, the distance taken modulo 64
LShrNonZero(x, n) == LShr(x, n % 64) # LZero

-----------------------------------------------------------------------------
(* The character tables and initSymbolCodec.                               *)

\* the three tables as one value
Tables == [pentas |-> pentas, plength |-> plength, characters |-> characters]

\* an array of n zeros (the comparison makes TLC build the array itself)
Zeros(n) == LET f == [c \in 0..(n - 1) |-> 0] IN IF f = << >> THEN << >> ELSE f

\* static storage before any initialiser has run: all zero
ZeroTables == [pentas     |-> Zeros(penta_length),
               plength    |-> Zeros(penta_length),
               characters |-> Zeros(1024)]

\* the length stored for a character that has no penta
InvalidLength == 64

initPenta(T, c, _penta, _plen) ==
    [pentas     |-> [T.pentas EXCEPT ![c] = _penta],
     plength    |-> [T.plength EXCEPT ![c] = _plen],
     characters |-> [T.characters EXCEPT ![_penta] = c]]

\* memset(pentas, 0, penta_length * sizeof(jInt))
ClearPentas(T) == [T EXCEPT !.pentas = Zeros(penta_length)]

\* the guard of the second loop without its test for the backtick
NeedsPentaNoBacktick(T, i) == T.pentas[i] = 0 /\ i # ChQuote

\* the test of the second loop without its exclusion of the apostrophe
NeedsPentaNoQuote(T, i) == T.pentas[i] = 0 /\ i # ChBacktick

\* the guard of the second loop of initSymbolCodec
NeedsPenta(T, i) == T.pentas[i] = 0 /\ i # ChQuote /\ i # ChBacktick

(* One step of initSymbolCodec.  A running call is the record              *)
(* [at, i, penta]: the statement it stands before, the loop index and the  *)
(* local counter penta.  A step is one loop iteration, one memset or one   *)
(* initPenta call.                                                         *)
InitEntry == [at |-> "plength", i |-> penta_length, penta |-> 0]

InitStepPc(T, pc) ==
    CASE pc.at = "plength" ->
           IF pc.i - 1 >= 0 THEN [pc EXCEPT !.i = pc.i - 1]
           ELSE [pc EXCEPT !.at = "memset_pentas", !.i = pc.i - 1]
      [] pc.at = "memset_pentas" -> [pc EXCEPT !.at = "memset_characters"]
      [] pc.at = "memset_characters" -> [pc EXCEPT !.at = "letters", !.i = ChA]
      [] pc.at = "letters" ->
           IF pc.i <= ChZ THEN [pc EXCEPT !.i = pc.i + 1]
           ELSE [pc EXCEPT !.at = "dot"]
      [] pc.at = "dot" -> [pc EXCEPT !.at = "slash"]
      [] pc.at = "slash" -> [pc EXCEPT !.at = "dollar"]
      [] pc.at = "dollar" -> [pc EXCEPT !.at = "others", !.i = 32, !.penta = 960]
      [] pc.at = "others" ->
           IF pc.i <= 126
           THEN [pc EXCEPT !.i = pc.i + 1,
                           !.penta = IF NeedsPenta(T, pc.i) THEN pc.penta + 1
                                     ELSE pc.penta]
           ELSE [pc EXCEPT !.at = "check"]
      [] pc.at = "check" -> [pc EXCEPT !.at = "return"]

InitStepTables(T, pc) ==
    CASE pc.at = "plength" ->
           IF pc.i - 1 >= 0 THEN [T EXCEPT !.plength[pc.i - 1] = InvalidLength] ELSE T
      [] pc.at = "memset_pentas" -> ClearPentas(T)
      [] pc.at = "memset_characters" ->
           [T EXCEPT !.characters = Zeros(1024)]
      [] pc.at = "letters" ->
           IF pc.i <= ChZ THEN initPenta(T, pc.i, pc.i - ChA + 1, 5) ELSE T
      [] pc.at = "dot" -> initPenta(T, ChDot, 27, 5)
      [] pc.at = "slash" -> initPenta(T, ChSlash, 28, 5)
      [] pc.at = "dollar" -> initPenta(T, ChDollar, 29, 5)
      [] pc.at = "others" ->
           IF pc.i <= 126 /\ NeedsPenta(T, pc.i)
           THEN initPenta(T, pc.i, pc.penta, 10) ELSE T
      [] pc.at = "check" -> T

\* the error initSymbolCodec hands to setParseError at its last statement
InitError(pc) == IF pc.penta # 1024 THEN "internal_error" ELSE "none"

\* one step of a running call, as a value; a call that has returned stays
InitStep(st) ==
    IF st.pc.at = "return" THEN st
    ELSE [tables |-> InitStepTables(st.tables, st.pc),
          pc     |-> InitStepPc(st.tables, st.pc)]

\* n steps (split in halves, which keeps the evaluation shallow)
RECURSIVE InitSteps(_, _)
InitSteps(st, n) ==
    IF n = 0 \/ st.pc.at = "return" THEN st
    ELSE IF n = 1 THEN InitStep(st)
    ELSE InitSteps(InitSteps(st, n \div 2), n - (n \div 2))

\* a whole call: the steps from entry to return (a call takes 261 steps)
InitRun(T, pc) == InitSteps([tables |-> T, pc |-> pc], 4 * penta_length)

(* The first three statements of initSymbolCodec overwrite every entry of  *)
(* the three tables, so what a whole call leaves does not depend on what   *)
(* it finds.                                                               *)
InitDone == InitRun(ZeroTables, InitEntry)

-----------------------------------------------------------------------------
(* The cipher codec.                                                       *)

\* encodePenta with the '$' branch adding the tag of the '/' branch
encodePentaSameTag(T, penta, plen) ==
    IF plen <= 30 THEN AddTag(LToInt(penta), 1)
    ELSE LET c == LShr30ToInt(penta) IN
         IF c = T.pentas[ChSlash] THEN AddTag(LLow30(penta), 2)
         ELSE IF c = T.pentas[ChDollar] THEN AddTag(LLow30(penta), 2)
         ELSE 0

\* encodePenta with the branch of tag 01 taken up to 35 bits
encodePentaWide(T, penta, plen) ==
    IF plen <= 35 THEN AddTag(LToInt(penta), 1)
    ELSE LET c == LShr30ToInt(penta) IN
         IF c = T.pentas[ChSlash] THEN AddTag(LLow30(penta), 2)
         ELSE IF c = T.pentas[ChDollar] THEN AddTag(LLow30(penta), 3)
         ELSE 0

encodePenta(T, penta, plen) ==
    IF plen <= 30 THEN AddTag(LToInt(penta), 1)
    ELSE LET c == LShr30ToInt(penta) IN
         IF c = T.pentas[ChSlash] THEN AddTag(LLow30(penta), 2)
         ELSE IF c = T.pentas[ChDollar] THEN AddTag(LLow30(penta), 3)
         ELSE 0

\* decodeCipher with the prefixes of tags 10 and 11 exchanged
decodeCipherSwapped(T, cipher) ==
    LET tag == UTag(cipher)
        low == LFromNat(Low30(cipher))
    IN  CASE tag = 0 -> [ok |-> FALSE, error |-> "illegal_argument",
                         written |-> FALSE, c |-> LZero]
          [] tag = 1 -> [ok |-> TRUE, error |-> "none", written |-> TRUE, c |-> low]
          [] tag = 2 -> [ok |-> TRUE, error |-> "none", written |-> TRUE,
                         c |-> LAdd(LShl(LFromNat(T.pentas[ChDollar]), 30), low)]
          [] tag = 3 -> [ok |-> TRUE, error |-> "none", written |-> TRUE,
                         c |-> LAdd(LShl(LFromNat(T.pentas[ChSlash]), 30), low)]
          [] OTHER   -> [ok |-> FALSE, error |-> "internal_error",
                         written |-> FALSE, c |-> LZero]

(* decodeCipher(cipher, OUT c): the record [ok, error, written, c], where   *)
(* written says whether *c was assigned and c is the value assigned.  The   *)
(* switch is on a two-bit value, so its default branch has no case left.    *)
decodeCipher(T, cipher) ==
    LET tag == cipherTag(cipher)
        low == LFromNat(Low30(cipher))
    IN  CASE tag = 0 -> [ok |-> FALSE, error |-> "illegal_argument",
                         written |-> FALSE, c |-> LZero]
          [] tag = 1 -> [ok |-> TRUE, error |-> "none", written |-> TRUE, c |-> low]
          [] tag = 2 -> [ok |-> TRUE, error |-> "none", written |-> TRUE,
                         c |-> LAdd(LShl(LFromNat(T.pentas[ChSlash]), 30), low)]
          [] tag = 3 -> [ok |-> TRUE, error |-> "none", written |-> TRUE,
                         c |-> LAdd(LShl(LFromNat(T.pentas[ChDollar]), 30), low)]
          [] OTHER   -> [ok |-> FALSE, error |-> "internal_error",
                         written |-> FALSE, c |-> LZero]

-----------------------------------------------------------------------------
(* The penta packer.                                                       *)

\* the loop of encode with each new penta packed above the earlier ones
RECURSIVE encodeLoopReversed(_, _, _, _, _)
encodeLoopReversed(T, symbol, i, penta, plen) ==
    IF i > Len(symbol) THEN [zero |-> FALSE, penta |-> penta, plen |-> plen]
    ELSE LET c == symbol[i] IN
         IF c >= 128 THEN [zero |-> TRUE, penta |-> penta, plen |-> plen]
         ELSE LET l == T.plength[c] IN
              encodeLoopReversed(T, symbol, i + 1,
                                 LAdd(LShl(LFromNat(T.pentas[c]), plen % 64), penta),
                                 plen + l)

(* The loop of encode from index i (1-based here) on: [zero, penta, plen],  *)
(* zero saying that the loop returned 0.  A shift distance is taken modulo  *)
(* 64, as the language of that function defines it: the distance 64 of an   *)
(* ineligible character leaves penta as it is.                              *)
RECURSIVE encodeLoop(_, _, _, _, _)
encodeLoop(T, symbol, i, penta, plen) ==
    IF i > Len(symbol) THEN [zero |-> FALSE, penta |-> penta, plen |-> plen]
    ELSE LET c == symbol[i] IN
         IF c >= 128 THEN [zero |-> TRUE, penta |-> penta, plen |-> plen]
         ELSE LET l == T.plength[c] IN
              encodeLoop(T, symbol, i + 1,
                         LAdd(LShl(penta, l % 64), LFromNat(T.pentas[c])),
                         plen + l)

(* The call of encodePenta that encode makes: [reached, penta, plen],       *)
(* reached saying that the call is made, penta and plen its arguments.      *)
encodeCall(T, symbol) ==
    IF symbol = Null THEN [reached |-> FALSE, penta |-> LZero, plen |-> 0]
    ELSE IF Len(symbol) > 7 THEN [reached |-> FALSE, penta |-> LZero, plen |-> 0]
    ELSE LET r == encodeLoop(T, symbol, 1, LZero, 0) IN
         IF r.zero \/ r.plen > 35 THEN [reached |-> FALSE, penta |-> LZero, plen |-> 0]
         ELSE [reached |-> TRUE, penta |-> r.penta, plen |-> r.plen]

\* encode without its test of plen against 35
encodeNoPlenCheck(T, symbol) ==
    IF symbol = Null THEN 0
    ELSE IF Len(symbol) > 7 THEN 0
    ELSE LET r == encodeLoop(T, symbol, 1, LZero, 0) IN
         IF r.zero THEN 0
         ELSE encodePenta(T, r.penta, r.plen)

encode(T, symbol) ==
    IF symbol = Null THEN 0
    ELSE IF Len(symbol) > 7 THEN 0
    ELSE LET r == encodeLoop(T, symbol, 1, LZero, 0) IN
         IF r.zero THEN 0
         ELSE IF r.plen > 35 THEN 0
         ELSE encodePenta(T, r.penta, r.plen)

\* the plen loop of readSymbol: while ((penta >>> plen) != 0) plen += 5
RECURSIVE plenLoop(_, _)
plenLoop(penta, plen) ==
    IF LShrNonZero(penta, plen) THEN plenLoop(penta, plen + 5) ELSE plen

(* toString(penta): groups of 5 bits from the top; a group of 30 or 31     *)
(* takes the next 5 bits with it as a 10-bit penta; each penta maps through *)
(* characters.  Fail where a penta has no character.                        *)
Fail == << -2 >>

RECURSIVE peel(_, _, _, _)
peel(T, penta, plen, acc) ==
    IF plen <= 0 THEN acc
    ELSE LET g == LShr(penta, plen - 5).l0 % 32 IN
         IF g >= 30 /\ plen >= 10
         THEN LET p == LShr(penta, plen - 10).l0 % 1024 IN
              IF T.characters[p] = 0 THEN Fail
              ELSE peel(T, penta, plen - 10, Append(acc, T.characters[p]))
         ELSE IF T.characters[g] = 0 THEN Fail
              ELSE peel(T, penta, plen - 5, Append(acc, T.characters[g]))

toString(T, penta) == peel(T, penta, plenLoop(penta, 0), << >>)

-----------------------------------------------------------------------------
(* The byte source (BufferedInput).  Each read is the record [ok, v, rest]: *)
(* ok is FALSE where the bytes run out or are malformed, v is the value     *)
(* read, rest the bytes left.                                               *)

Eof == [ok |-> FALSE, v |-> 0, rest |-> << >>]

readUnsignedByte(s) ==
    IF Len(s) >= 1 THEN [ok |-> TRUE, v |-> s[1], rest |-> SubSeq(s, 2, Len(s))]
    ELSE Eof

readUnsignedShort(s) ==
    IF Len(s) >= 2 THEN [ok |-> TRUE, v |-> s[1] * 256 + s[2],
                         rest |-> SubSeq(s, 3, Len(s))]
    ELSE Eof

\* a big-endian 32-bit value as a jInt
readInt(s) ==
    IF Len(s) >= 4
    THEN [ok |-> TRUE,
          v |-> MkInt(s[1] \div 64,
                      (s[1] % 64) * (2^24) + s[2] * 65536 + s[3] * 256 + s[4]),
          rest |-> SubSeq(s, 5, Len(s))]
    ELSE Eof

\* the number of leading 1 bits of a byte
LeadingOnes(b) ==
    CASE b < 128 -> 0 [] b < 192 -> 1 [] b < 224 -> 2 [] b < 240 -> 3
      [] b < 248 -> 4 [] b < 252 -> 5 [] b < 254 -> 6 [] b < 255 -> 7
      [] OTHER -> 8

(* readCompactLong: a first byte with k leading ones is followed by k       *)
(* bytes; the bits after the leading ones and their terminating zero, with  *)
(* the following bytes, are the value in two's complement.  The value is    *)
(* given as [cls, v]: cls "int" with v the value where it fits a jInt,      *)
(* "above" where it is greater than Integer.MAX_VALUE, "below" where it is  *)
(* less than Integer.MIN_VALUE.                                             *)
CompactValue(s, k) ==
    LET width == IF k >= 7 THEN 0 ELSE 2^(7 - k)        \* values of the first byte's field
        field == IF k >= 7 THEN 0 ELSE s[1] % width
        neg   == IF k >= 7 THEN s[2] >= 128 ELSE field >= width \div 2
        lead  == IF k >= 7 THEN << >>
                 ELSE <<IF neg THEN field + (256 - width) ELSE field>>
        bytes == lead \o SubSeq(s, 2, k + 1)
        n     == Len(bytes)
        ext   == IF neg THEN 255 ELSE 0
        at(j) == IF j >= 1 THEN bytes[j] ELSE ext             \* sign-extended
        high  == \A j \in 1..(n - 4) : bytes[j] = ext
        fits  == high /\ ((at(n - 3) >= 128) <=> neg)
    IN  IF fits
        THEN [cls |-> "int",
              v |-> MkInt(at(n - 3) \div 64,
                          (at(n - 3) % 64) * (2^24) + at(n - 2) * 65536
                              + at(n - 1) * 256 + at(n))]
        ELSE [cls |-> IF neg THEN "below" ELSE "above", v |-> 0]

readCompactLong(s) ==
    IF Len(s) = 0 THEN Eof
    ELSE LET k == LeadingOnes(s[1]) IN
         IF Len(s) < k + 1 THEN Eof
         ELSE [ok |-> TRUE, v |-> CompactValue(s, k),
               rest |-> SubSeq(s, k + 2, Len(s))]

\* a continuation byte 10xxxxxx
IsCont(b) == b >= 128 /\ b < 192

\* readUTFChar: one code point in UTF-8
readUTFChar(s) ==
    IF Len(s) = 0 THEN Eof
    ELSE LET b == s[1] IN
         CASE b < 128 -> [ok |-> TRUE, v |-> b, rest |-> SubSeq(s, 2, Len(s))]
           [] b >= 192 /\ b < 224 ->
                IF Len(s) >= 2 /\ IsCont(s[2])
                THEN [ok |-> TRUE, v |-> (b % 32) * 64 + (s[2] % 64),
                      rest |-> SubSeq(s, 3, Len(s))]
                ELSE Eof
           [] b >= 224 /\ b < 240 ->
                IF Len(s) >= 3 /\ IsCont(s[2]) /\ IsCont(s[3])
                THEN [ok |-> TRUE,
                      v |-> (b % 16) * 4096 + (s[2] % 64) * 64 + (s[3] % 64),
                      rest |-> SubSeq(s, 4, Len(s))]
                ELSE Eof
           [] b >= 240 /\ b < 248 ->
                IF Len(s) >= 4 /\ IsCont(s[2]) /\ IsCont(s[3]) /\ IsCont(s[4])
                THEN [ok |-> TRUE,
                      v |-> (b % 8) * 262144 + (s[2] % 64) * 4096
                                + (s[3] % 64) * 64 + (s[4] % 64),
                      rest |-> SubSeq(s, 5, Len(s))]
                ELSE Eof
           [] OTHER -> Eof

\* the UTF-16 code units of a code point
Utf16(cp) ==
    IF cp <= 65535 THEN <<cp>>
    ELSE <<55296 + ((cp - 65536) \div 1024), 56320 + ((cp - 65536) % 1024)>>

\* the characters of the next n bytes of UTF-8
RECURSIVE utfChars(_, _, _)
utfChars(s, n, acc) ==
    IF n = 0 THEN [ok |-> TRUE, v |-> acc, rest |-> s]
    ELSE LET c == readUTFChar(s) IN
         IF ~c.ok \/ Len(s) - Len(c.rest) > n THEN Eof
         ELSE utfChars(c.rest, n - (Len(s) - Len(c.rest)), acc \o Utf16(c.v))

\* readUTFString: the length in bytes as a compact number, -1 for null, then UTF-8
readUTFString(s) ==
    LET n == readCompactLong(s) IN
    IF ~n.ok \/ n.v.cls # "int" \/ n.v.v < -1 THEN Eof
    ELSE IF n.v.v = -1 THEN [ok |-> TRUE, v |-> Null, rest |-> n.rest]
    ELSE utfChars(n.rest, n.v.v, << >>)

-----------------------------------------------------------------------------
(* The wire reader.                                                        *)

\* the dispatch with 0xFC in the second reserved range
tierOfWide(i) ==
    IF i < 128 THEN "15-bit"
    ELSE IF i < 192 THEN "30-bit"
    ELSE IF i < 224 THEN "reserved1"
    ELSE IF i < 240 THEN "20-bit"
    ELSE IF i < 248 THEN "35-bit"
    ELSE IF i <= 252 THEN "reserved2"
    ELSE IF i = 253 THEN "CESU-8"
    ELSE IF i = 254 THEN "0-bit"
    ELSE "void"

\* which of the ten branches of readSymbol the first byte takes
tierOf(i) ==
    IF i < 128 THEN "15-bit"
    ELSE IF i < 192 THEN "30-bit"
    ELSE IF i < 224 THEN "reserved1"
    ELSE IF i < 240 THEN "20-bit"
    ELSE IF i < 248 THEN "35-bit"
    ELSE IF i < 252 THEN "reserved2"
    ELSE IF i = 252 THEN "UTF-8"
    ELSE IF i = 253 THEN "CESU-8"
    ELSE IF i = 254 THEN "0-bit"
    ELSE "void"

\* the tiers that read a penta
PentaTiers == {"15-bit", "30-bit", "20-bit", "35-bit", "0-bit"}

\* (length & VALID_CIPHER) == 0 for a length from 0 to Integer.MAX_VALUE
NoCipherBits(length) == length < P30

\* readPenta with the first byte of the 15-bit tier shifted by 7 bits
readPentaShift7(i, s) ==
    CASE i < 128 ->
           LET b == readUnsignedByte(s) IN
           IF b.ok THEN [ok |-> TRUE, v |-> LFromNat(i * 128 + b.v), rest |-> b.rest]
           ELSE Eof
      [] i >= 128 /\ i < 192 ->
           LET b == readUnsignedByte(s) IN
           IF ~b.ok THEN Eof
           ELSE LET w == readUnsignedShort(b.rest) IN
                IF ~w.ok THEN Eof
                ELSE [ok |-> TRUE,
                      v |-> LFromNat((i % 64) * (2^24) + b.v * 65536 + w.v),
                      rest |-> w.rest]
      [] i >= 224 /\ i < 240 ->
           LET w == readUnsignedShort(s) IN
           IF w.ok THEN [ok |-> TRUE, v |-> LFromNat((i % 16) * 65536 + w.v),
                         rest |-> w.rest]
           ELSE Eof
      [] i >= 240 /\ i < 248 ->
           LET x == readInt(s) IN
           IF x.ok
           THEN [ok |-> TRUE,
                 v |-> LAdd(LShl(LFromNat(i % 8), 32),
                            [l0 |-> Low30(x.v), l1 |-> UTag(x.v), l2 |-> 0]),
                 rest |-> x.rest]
           ELSE Eof
      [] OTHER -> [ok |-> TRUE, v |-> LZero, rest |-> s]

\* readPenta with two bits of the first byte of the 35-bit tier, not three
readPentaMask3(i, s) ==
    CASE i < 128 ->
           LET b == readUnsignedByte(s) IN
           IF b.ok THEN [ok |-> TRUE, v |-> LFromNat(i * 256 + b.v), rest |-> b.rest]
           ELSE Eof
      [] i >= 128 /\ i < 192 ->
           LET b == readUnsignedByte(s) IN
           IF ~b.ok THEN Eof
           ELSE LET w == readUnsignedShort(b.rest) IN
                IF ~w.ok THEN Eof
                ELSE [ok |-> TRUE,
                      v |-> LFromNat((i % 64) * (2^24) + b.v * 65536 + w.v),
                      rest |-> w.rest]
      [] i >= 224 /\ i < 240 ->
           LET w == readUnsignedShort(s) IN
           IF w.ok THEN [ok |-> TRUE, v |-> LFromNat((i % 16) * 65536 + w.v),
                         rest |-> w.rest]
           ELSE Eof
      [] i >= 240 /\ i < 248 ->
           LET x == readInt(s) IN
           IF x.ok
           THEN [ok |-> TRUE,
                 v |-> LAdd(LShl(LFromNat(i % 4), 32),
                            [l0 |-> Low30(x.v), l1 |-> UTag(x.v), l2 |-> 0]),
                 rest |-> x.rest]
           ELSE Eof
      [] OTHER -> [ok |-> TRUE, v |-> LZero, rest |-> s]

\* readPenta with the first byte of the 20-bit tier not masked
readPentaUnmasked(i, s) ==
    CASE i < 128 ->
           LET b == readUnsignedByte(s) IN
           IF b.ok THEN [ok |-> TRUE, v |-> LFromNat(i * 256 + b.v), rest |-> b.rest]
           ELSE Eof
      [] i >= 128 /\ i < 192 ->
           LET b == readUnsignedByte(s) IN
           IF ~b.ok THEN Eof
           ELSE LET w == readUnsignedShort(b.rest) IN
                IF ~w.ok THEN Eof
                ELSE [ok |-> TRUE,
                      v |-> LFromNat((i % 64) * (2^24) + b.v * 65536 + w.v),
                      rest |-> w.rest]
      [] i >= 224 /\ i < 240 ->
           LET w == readUnsignedShort(s) IN
           IF w.ok THEN [ok |-> TRUE, v |-> LFromNat(i * 65536 + w.v),
                         rest |-> w.rest]
           ELSE Eof
      [] i >= 240 /\ i < 248 ->
           LET x == readInt(s) IN
           IF x.ok
           THEN [ok |-> TRUE,
                 v |-> LAdd(LShl(LFromNat(i % 8), 32),
                            [l0 |-> Low30(x.v), l1 |-> UTag(x.v), l2 |-> 0]),
                 rest |-> x.rest]
           ELSE Eof
      [] OTHER -> [ok |-> TRUE, v |-> LZero, rest |-> s]

\* readPenta with the 30-bit tier reading its first payload byte twice
readPentaReread(i, s) ==
    CASE i < 128 ->
           LET b == readUnsignedByte(s) IN
           IF b.ok THEN [ok |-> TRUE, v |-> LFromNat(i * 256 + b.v), rest |-> b.rest]
           ELSE Eof
      [] i >= 128 /\ i < 192 ->
           LET b == readUnsignedByte(s) IN
           IF ~b.ok THEN Eof
           ELSE LET w == readUnsignedShort(s) IN
                IF ~w.ok THEN Eof
                ELSE [ok |-> TRUE,
                      v |-> LFromNat((i % 64) * (2^24) + b.v * 65536 + w.v),
                      rest |-> w.rest]
      [] i >= 224 /\ i < 240 ->
           LET w == readUnsignedShort(s) IN
           IF w.ok THEN [ok |-> TRUE, v |-> LFromNat((i % 16) * 65536 + w.v),
                         rest |-> w.rest]
           ELSE Eof
      [] i >= 240 /\ i < 248 ->
           LET x == readInt(s) IN
           IF x.ok
           THEN [ok |-> TRUE,
                 v |-> LAdd(LShl(LFromNat(i % 8), 32),
                            [l0 |-> Low30(x.v), l1 |-> UTag(x.v), l2 |-> 0]),
                 rest |-> x.rest]
           ELSE Eof
      [] OTHER -> [ok |-> TRUE, v |-> LZero, rest |-> s]

(* The penta of a penta tier: [ok, v, rest], v a jLong.                     *)
readPenta(i, s) ==
    CASE i < 128 ->
           LET b == readUnsignedByte(s) IN
           IF b.ok THEN [ok |-> TRUE, v |-> LFromNat(i * 256 + b.v), rest |-> b.rest]
           ELSE Eof
      [] i >= 128 /\ i < 192 ->
           LET b == readUnsignedByte(s) IN
           IF ~b.ok THEN Eof
           ELSE LET w == readUnsignedShort(b.rest) IN
                IF ~w.ok THEN Eof
                ELSE [ok |-> TRUE,
                      v |-> LFromNat((i % 64) * (2^24) + b.v * 65536 + w.v),
                      rest |-> w.rest]
      [] i >= 224 /\ i < 240 ->
           LET w == readUnsignedShort(s) IN
           IF w.ok THEN [ok |-> TRUE, v |-> LFromNat((i % 16) * 65536 + w.v),
                         rest |-> w.rest]
           ELSE Eof
      [] i >= 240 /\ i < 248 ->
           LET x == readInt(s) IN
           IF x.ok
           THEN [ok |-> TRUE,
                 v |-> LAdd(LShl(LFromNat(i % 8), 32),
                            [l0 |-> Low30(x.v), l1 |-> UTag(x.v), l2 |-> 0]),
                 rest |-> x.rest]
           ELSE Eof
      [] OTHER -> [ok |-> TRUE, v |-> LZero, rest |-> s]

(* The loop of the CESU-8 branch from index k on: [threw, chars, rest],     *)
(* chars the characters stored so far.                                      *)
RECURSIVE readChars(_, _, _, _)
readChars(s, k, length, chars) ==
    IF k >= length THEN [threw |-> "none", chars |-> chars, rest |-> s]
    ELSE LET c == readUTFChar(s) IN
         IF ~c.ok THEN [threw |-> "io", chars |-> chars, rest |-> << >>]
         ELSE IF c.v > 65535
         THEN [threw |-> "beyond_bmp", chars |-> chars, rest |-> c.rest]
         ELSE readChars(c.rest, k + 1, length, Append(chars, c.v))

\* the test of the count without its comparison with the length of the buffer
returnsCountAny(length, buf) == NoCipherBits(length)

\* whether the CESU-8 branch returns the count of characters, not a string
returnsCount(length, buf) == length <= Len(buf) /\ NoCipherBits(length)

\* the scratch buffer with chars stored from its start
Stored(buf, chars) == chars \o SubSeq(buf, Len(chars) + 1, Len(buf))

\* a slot that is cleared where the call leaves it as it was
PutNull(res) == [set |-> FALSE, v |-> Null]

\* the slot result[0] left as it was, and assigned
Kept(res) == [set |-> FALSE, v |-> res]
Put(v) == [set |-> TRUE, v |-> v]

\* a readSymbol call that clears the slot where it throws
OutcomeCleared(tier, threw, ret, slot, buf, rest) ==
    [tier |-> tier, threw |-> threw, ret |-> ret, set |-> slot.set,
     result |-> IF threw = "none" THEN slot.v ELSE Null, buffer |-> buf,
     rest |-> rest]

\* what a readSymbol call leaves
Outcome(tier, threw, ret, slot, buf, rest) ==
    [tier |-> tier, threw |-> threw, ret |-> ret, set |-> slot.set,
     result |-> slot.v, buffer |-> buf, rest |-> rest]

(* readSymbol(in, buffer, result): threw is the exception thrown ("none"    *)
(* where the call returns), ret the value returned, set whether the call    *)
(* assigned result[0], result and buffer what the call leaves in the slot   *)
(* and in the scratch buffer, rest the bytes it has not consumed.           *)
readSymbol(T, s, buf, res) ==
    LET first == readUnsignedByte(s) IN
    IF ~first.ok THEN Outcome("none", "io", 0, Kept(res), buf, << >>)
    ELSE
    LET i    == first.v
        tier == tierOf(i)
        r    == first.rest
    IN
    CASE tier \in {"reserved1", "reserved2"} ->
           Outcome(tier, "reserved", 0, Kept(res), buf, r)
      [] tier = "UTF-8" ->
           LET u == readUTFString(r) IN
           IF u.ok THEN Outcome(tier, "none", 0, Put(u.v), buf, u.rest)
           ELSE Outcome(tier, "io", 0, Kept(res), buf, << >>)
      [] tier = "CESU-8" ->
           LET n == readCompactLong(r) IN
           IF ~n.ok THEN Outcome(tier, "io", 0, Kept(res), buf, << >>)
           ELSE IF n.v.cls # "int" \/ n.v.v < -1
           THEN Outcome(tier, "illegal_length", 0, Kept(res), buf, n.rest)
           ELSE IF n.v.v = -1 THEN Outcome(tier, "none", 0, Put(Null), buf, n.rest)
           ELSE IF n.v.v = 0 THEN Outcome(tier, "none", 0, Put(<< >>), buf, n.rest)
           ELSE LET length == n.v.v
                    shared == length <= Len(buf)
                    cs     == readChars(n.rest, 0, length, << >>)
                    after  == IF shared THEN Stored(buf, cs.chars) ELSE buf
                IN  IF cs.threw # "none"
                    THEN Outcome(tier, cs.threw, 0, Kept(res), after, cs.rest)
                    ELSE IF returnsCount(length, buf)
                    THEN Outcome(tier, "none", length, Kept(res), after, cs.rest)
                    ELSE Outcome(tier, "none", 0, Put(cs.chars), after, cs.rest)
      [] tier = "void" -> Outcome(tier, "none", 0, Put(Null), buf, r)
      [] OTHER ->
           LET p == readPenta(i, r) IN
           IF ~p.ok THEN Outcome(tier, "io", 0, Kept(res), buf, << >>)
           ELSE LET plen   == plenLoop(p.v, 0)
                    cipher == encodePenta(T, p.v, plen)
                IN  IF cipher # 0 THEN Outcome(tier, "none", cipher, Kept(res), buf, p.rest)
                    ELSE LET str == toString(T, p.v) IN
                         IF str = Fail
                         THEN Outcome(tier, "undecodable", 0, Kept(res), buf, p.rest)
                         ELSE Outcome(tier, "none", 0, Put(str), buf, p.rest)

\* no call of encodePenta
NoCall == [reached |-> FALSE, penta |-> LZero, plen |-> 0]

(* The call of encodePenta that readSymbol makes: [reached, penta, plen],   *)
(* reached saying that the call is made, penta and plen its arguments.      *)
readSymbolCall(s) ==
    LET first == readUnsignedByte(s) IN
    IF ~first.ok \/ tierOf(first.v) \notin PentaTiers THEN NoCall
    ELSE LET p == readPenta(first.v, first.rest) IN
         IF ~p.ok THEN NoCall
         ELSE [reached |-> TRUE, penta |-> p.v, plen |-> plenLoop(p.v, 0)]

-----------------------------------------------------------------------------
(* The wire writer.                                                        *)

\* a length from 0 to 8191 as a compact number
writeCompactLong(n) ==
    IF n < 64 THEN <<n>> ELSE <<128 + (n \div 256), n % 256>>

\* one character in UTF-8
writeUTFChar(c) ==
    IF c < 128 THEN <<c>>
    ELSE IF c < 2048 THEN <<192 + (c \div 64), 128 + (c % 64)>>
    ELSE <<224 + (c \div 4096), 128 + ((c \div 64) % 64), 128 + (c % 64)>>

RECURSIVE writeChars(_, _)
writeChars(symbol, i) ==
    IF i > Len(symbol) THEN << >>
    ELSE writeUTFChar(symbol[i]) \o writeChars(symbol, i + 1)

\* the four bytes of the low 32 bits of a jLong, big-endian
Low32Bytes(x) ==
    <<(x.l1 % 4) * 64 + (x.l0 \div (2^24)), (x.l0 \div 65536) % 256,
      (x.l0 \div 256) % 256, x.l0 % 256>>

\* a penta in the tier of the least width that holds plen bits
writePenta(penta, plen) ==
    LET b == Low32Bytes(penta) IN
    IF plen <= 15 THEN <<b[3], b[4]>>
    ELSE IF plen <= 20 THEN <<224 + b[2], b[3], b[4]>>
    ELSE IF plen <= 30 THEN <<128 + b[1], b[2], b[3], b[4]>>
    ELSE <<240 + (penta.l1 \div 4)>> \o b

writeSymbol(T, symbol) ==
    IF symbol = Null THEN <<255>>
    ELSE IF symbol = << >> THEN <<254>>
    ELSE LET cipher == encode(T, symbol) IN
         IF cipher # 0
         THEN LET penta == decodeCipher(T, cipher).c IN
              writePenta(penta, plenLoop(penta, 0))
         ELSE <<253>> \o writeCompactLong(Len(symbol)) \o writeChars(symbol, 1)

-----------------------------------------------------------------------------
(* Bounds and the inputs drawn from them.                                  *)

MaxLen == 8       \* longest string over CoreChars handed to encode
MaxPad == 2       \* longest run of characters on either side of an odd character
MaxInits == 2     \* initSymbolCodec calls in one run
BufLen == 2       \* length of the caller's scratch buffer
MaxPending == 1   \* symbols written and not yet read
MaxStream == 3    \* symbols with a cipher written one after another and not yet read

\* all strings over S of length at most n
RECURSIVE Strs(_, _)
Strs(S, n) ==
    IF n = 0 THEN {<< >>}
    ELSE LET P == Strs(S, n - 1) IN
         P \cup {Append(q, c) : q \in {r \in P : Len(r) = n - 1}, c \in S}

CoreChars == {ChA, ChSlash, 97}                   \* 'A', '/', 'a'
PadChars == {ChA, 97}
HeadChars == {ChDollar, ChDot, ChZ, ChStar, 32, 126}
\* ineligible: control, apostrophe, backtick, DEL, and code units from 128 on
OddChars == {0, 10, 31, ChQuote, ChBacktick, 127, 128, 255, 8364}

IBM == <<73, 66, 77>>

Symbols ==
    {Null, IBM}
    \cup Strs(CoreChars, MaxLen)
    \cup {<<h>> \o t : h \in HeadChars, t \in Strs(PadChars, MaxLen - 2)}
    \cup {a \o <<x>> \o b : a \in Strs(PadChars, MaxPad), x \in OddChars,
                            b \in Strs(PadChars, MaxPad)}
    \cup {a \o <<x>> \o b : a \in Strs(CoreChars, MaxLen - 4), x \in {ChQuote, 128},
                            b \in Strs({ChA}, MaxPad)}

-----------------------------------------------------------------------------
(* The program.                                                            *)

IdlePc == [at |-> "idle", i |-> 0, penta |-> 0]

\* what a call of a function that returns dx_result_t can hand back
ResultValues == {"R_SUCCESSFUL", "R_FAILED"}

Init ==
    /\ pentas = ZeroTables.pentas
    /\ plength = ZeroTables.plength
    /\ characters = ZeroTables.characters
    /\ WILDCARD_CIPHER = 0
    /\ phase = "load"
    /\ parseError = "none"
    /\ initPc = IdlePc
    /\ inits = 0
    /\ pentaOut = LZero
    /\ in = << >>
    /\ pending = << >>
    /\ buffer = [k \in 1..BufLen |-> 0]
    /\ result = Null
    /\ call = [op |-> "none"]

(* The callers of the codec keep to its protocol: initSymbolCodec is called *)
(* before any other operation.  The program's own static initialiser (Load) *)
(* does not.                                                                *)
ClientMayCall == phase = "run" /\ inits > 0

\* the dynamic initialiser of WILDCARD_CIPHER, run when the program is loaded
Load ==
    /\ phase = "load"
    /\ phase' = "run"
    /\ WILDCARD_CIPHER' = encode(Tables, <<ChStar>>)
    /\ call' = [op |-> "load"]
    /\ UNCHANGED <<pentas, plength, characters, parseError, initPc, inits,
                   pentaOut, in, pending, buffer, result>>

(* A whole initSymbolCodec call.  Its last statement returns                *)
(* setParseError(pr_internal_error) when the counter is off; otherwise      *)
(* control reaches the closing brace without a return statement, and the    *)
(* caller reads a value that nothing set.                                   *)
InitSymbolCodec ==
    /\ phase = "run" /\ initPc.at = "idle" /\ inits < MaxInits
    /\ LET r == InitDone IN
       /\ pentas' = r.tables.pentas
       /\ plength' = r.tables.plength
       /\ characters' = r.tables.characters
       /\ IF InitError(r.pc) # "none"
          THEN /\ parseError' = InitError(r.pc)
               /\ call' = [op |-> "initSymbolCodec", ret |-> "R_FAILED",
                           penta |-> r.pc.penta]
          ELSE /\ parseError' = parseError
               /\ \E v \in ResultValues :
                     call' = [op |-> "initSymbolCodec", ret |-> v,
                              penta |-> r.pc.penta]
    /\ inits' = inits + 1
    /\ UNCHANGED <<WILDCARD_CIPHER, phase, initPc, pentaOut, in, pending,
                   buffer, result>>

Encode(symbol) ==
    /\ ClientMayCall
    /\ call' = [op |-> "encode", symbol |-> symbol, ret |-> encode(Tables, symbol),
                initAt |-> initPc.at, ep |-> encodeCall(Tables, symbol)]
    /\ UNCHANGED <<pentas, plength, characters, WILDCARD_CIPHER, phase, parseError,
                   initPc, inits, pentaOut, in, pending, buffer, result>>

\* the ciphers handed to decodeCipher: each tag over a sample of low 30 bits
LowSamples == {0, P30 - 1} \cup {d * (32^k) : d \in {1, 31}, k \in {0, 3, 5}}
Ciphers == {MkInt(tag, low) : tag \in 0..3, low \in LowSamples}

DecodeCipher(cipher) ==
    /\ ClientMayCall
    /\ LET r == decodeCipher(Tables, cipher) IN
       /\ pentaOut' = IF r.written THEN r.c ELSE pentaOut
       /\ parseError' = IF r.ok THEN parseError ELSE r.error
       /\ call' = [op |-> "decodeCipher", cipher |-> cipher, ok |-> r.ok,
                   error |-> r.error, before |-> pentaOut, initAt |-> initPc.at]
    /\ UNCHANGED <<pentas, plength, characters, WILDCARD_CIPHER, phase, initPc, inits,
                   in, pending, buffer, result>>

\* encodePenta on the caller's penta, plen found as readSymbol finds it
EncodePenta ==
    /\ ClientMayCall
    /\ LET plen == plenLoop(pentaOut, 0) IN
       call' = [op |-> "encodePenta", penta |-> pentaOut, plen |-> plen,
                ret |-> encodePenta(Tables, pentaOut, plen)]
    /\ UNCHANGED <<pentas, plength, characters, WILDCARD_CIPHER, phase, parseError,
                   initPc, inits, pentaOut, in, pending, buffer, result>>

\* the pentas below 2^35 handed to encodePenta: every top 5 bits over the low samples
Pentas == {[l0 |-> low, l1 |-> hi, l2 |-> 0] : low \in LowSamples, hi \in 0..31}

\* encodePenta on a penta of the caller's, with the plen that covers it
EncodePentaOf(penta) ==
    /\ ClientMayCall
    /\ LET plen == plenLoop(penta, 0) IN
       call' = [op |-> "encodePenta", penta |-> penta, plen |-> plen,
                ret |-> encodePenta(Tables, penta, plen)]
    /\ UNCHANGED <<pentas, plength, characters, WILDCARD_CIPHER, phase, parseError,
                   initPc, inits, pentaOut, in, pending, buffer, result>>

(* encode changes nothing of the program's state, so a call made right     *)
(* after another encode call finds the state that call found: the guard    *)
(* on call.op leaves out those repeated transitions only.                  *)
EncodeAny == call.op # "encode" /\ \E symbol \in Symbols : Encode(symbol)

Next ==
    \/ Load
    \/ InitSymbolCodec
    \/ EncodeAny

Spec == Init /\ [][Next]_vars

\* the cipher codec
NextCipher ==
    \/ Load
    \/ InitSymbolCodec
    \/ \E cipher \in Ciphers : DecodeCipher(cipher)
    \/ EncodePenta

SpecCipher == Init /\ [][NextCipher]_vars

\* encodePenta alone
NextPenta ==
    \/ Load
    \/ InitSymbolCodec
    \/ \E penta \in Pentas : EncodePentaOf(penta)

SpecPenta == Init /\ [][NextPenta]_vars

(* initSymbolCodec statement by statement, with the calls of another thread *)
(* between its steps.  One call runs at a time.                             *)
InitBegin ==
    /\ phase = "run" /\ initPc.at = "idle" /\ inits < MaxInits
    /\ initPc' = InitEntry
    /\ UNCHANGED <<pentas, plength, characters, WILDCARD_CIPHER, phase, parseError,
                   inits, pentaOut, in, pending, buffer, result, call>>

InitStatement ==
    /\ initPc.at \notin {"idle", "return"}
    /\ LET T == InitStepTables(Tables, initPc) IN
       /\ pentas' = T.pentas
       /\ plength' = T.plength
       /\ characters' = T.characters
    /\ initPc' = InitStepPc(Tables, initPc)
    /\ parseError' = IF initPc.at = "check" /\ InitError(initPc) # "none"
                     THEN InitError(initPc) ELSE parseError
    /\ UNCHANGED <<WILDCARD_CIPHER, phase, inits, pentaOut, in, pending, buffer,
                   result, call>>

InitReturn ==
    /\ initPc.at = "return"
    /\ initPc' = IdlePc
    /\ inits' = inits + 1
    /\ IF InitError(initPc) # "none"
       THEN call' = [op |-> "initSymbolCodec", ret |-> "R_FAILED",
                     penta |-> initPc.penta]
       ELSE \E v \in ResultValues :
               call' = [op |-> "initSymbolCodec", ret |-> v, penta |-> initPc.penta]
    /\ UNCHANGED <<pentas, plength, characters, WILDCARD_CIPHER, phase, parseError,
                   pentaOut, in, pending, buffer, result>>

\* what the other thread asks for
ProbeSymbols == {<<ChA>>, <<ChStar>>, <<ChSlash, 97, 97, 97>>, <<ChA, ChQuote>>}
ProbeCiphers == {MkInt(2, 1), MkInt(1, 1)}

NextInit ==
    \/ Load
    \/ InitBegin
    \/ InitStatement
    \/ InitReturn
    \/ \E symbol \in ProbeSymbols : Encode(symbol)
    \/ \E cipher \in ProbeCiphers : DecodeCipher(cipher)

SpecInit == Init /\ [][NextInit]_vars

\* the symbols handed to the writer
WireSymbols ==
    {Null, << >>, <<ChA, ChA, ChA>>, <<ChA, ChA, ChA, ChA>>, <<ChA, ChA, ChA, ChA, ChA, ChA>>,
     <<ChSlash, ChA, ChA, ChA, ChA, ChA, ChA>>,
     <<ChDollar, ChZ, ChZ, ChZ, ChZ, ChZ, ChZ>>,
     <<ChA, ChA, ChA, ChA, ChA, ChA, ChA, ChA>>, <<233, 8364>>}
    \cup {[k \in 1..n |-> ChQuote] : n \in 1..(BufLen + 1)}

\* byte streams of another writer: every first byte, before each tail
RawTails ==
    {<< >>, <<1, 65, 0, 1>>, <<64, 0, 0, 33>>, <<255, 255, 255, 255>>,
     <<1, 65, 253, 2, 65, 240, 144, 128, 128>>, <<127, 0, 65>>, <<0, 65, 65>>}
RawChunks == {<<b>> \o t : b \in 0..255, t \in RawTails}

\* the mark of bytes that writeSymbol did not produce
Raw == << -3 >>

\* the peer writes a symbol to the stream
WriteSymbol(symbol) ==
    /\ ClientMayCall
    /\ Len(pending) < MaxPending
    /\ Raw \notin {pending[k] : k \in 1..Len(pending)}
    /\ in' = in \o writeSymbol(Tables, symbol)
    /\ pending' = Append(pending, symbol)
    /\ call' = [op |-> "writeSymbol", symbol |-> symbol]
    /\ UNCHANGED <<pentas, plength, characters, WILDCARD_CIPHER, phase, parseError,
                   initPc, inits, pentaOut, buffer, result>>

(* The reader is given the stream of another writer instead, to read with *)
(* an empty slot and a cleared buffer, when it has read nothing yet.        *)
Feed(bytes) ==
    /\ ClientMayCall
    /\ call.op = "initSymbolCodec"
    /\ in = << >> /\ pending = << >>
    /\ in' = bytes
    /\ pending' = <<Raw>>
    /\ buffer' = [k \in 1..BufLen |-> 0]
    /\ result' = Null
    /\ call' = [op |-> "feed"]
    /\ UNCHANGED <<pentas, plength, characters, WILDCARD_CIPHER, phase, parseError,
                   initPc, inits, pentaOut>>

(* readSymbol on the bytes that are there.  An exception ends the reading   *)
(* of the stream, and so does the end of the stream of another writer.      *)
ReadSymbol ==
    /\ ClientMayCall
    /\ in # << >>
    /\ LET r == readSymbol(Tables, in, buffer, result) IN
       /\ in' = IF r.threw = "none" THEN r.rest ELSE << >>
       /\ pending' = IF Head(pending) = Raw THEN pending
                     ELSE IF r.threw # "none" THEN <<Raw>>
                     ELSE Tail(pending)
       /\ buffer' = r.buffer
       /\ result' = r.result
       /\ call' = [op |-> "readSymbol", first |-> in[1], from |-> Head(pending),
                   tier |-> r.tier, threw |-> r.threw, ret |-> r.ret,
                   set |-> r.set, before |-> result,
                   consumed |-> Len(in) - Len(r.rest),
                   bytes |-> SubSeq(in, 1, Len(in) - Len(r.rest)),
                   ep |-> readSymbolCall(in)]
    /\ UNCHANGED <<pentas, plength, characters, WILDCARD_CIPHER, phase, parseError,
                   initPc, inits, pentaOut>>

NextWire ==
    \/ Load
    \/ InitSymbolCodec
    \/ \E symbol \in WireSymbols : WriteSymbol(symbol)
    \/ \E bytes \in RawChunks : Feed(bytes)
    \/ ReadSymbol

SpecWire == Init /\ [][NextWire]_vars

\* the strings handed to encode beside the reads: every plen, with and without prefix
CallSymbols ==
    {Null, IBM}
    \cup Strs(PadChars, MaxLen - 1)
    \cup {<<h>> \o t : h \in {ChSlash, ChDollar}, t \in Strs(PadChars, MaxLen - 2)}
    \cup {<<ChA, x>> : x \in OddChars}

\* the symbols written one after another: null and those with a cipher, of each tier
StreamSymbols ==
    {Null, << >>, <<ChA, ChA, ChA>>, <<ChA, ChA, ChA, ChA>>,
     <<ChA, ChA, ChA, ChA, ChA, ChA>>, <<ChSlash, ChA, ChA, ChA, ChA, ChA, ChA>>,
     <<ChDollar, ChZ, ChZ, ChZ, ChZ, ChZ, ChZ>>}

\* the peer writes a further symbol to a stream of penta tiers
WriteNext(symbol) ==
    /\ ClientMayCall
    /\ Len(pending) < MaxStream
    /\ Raw \notin {pending[k] : k \in 1..Len(pending)}
    /\ in' = in \o writeSymbol(Tables, symbol)
    /\ pending' = Append(pending, symbol)
    /\ call' = [op |-> "writeSymbol", symbol |-> symbol]
    /\ UNCHANGED <<pentas, plength, characters, WILDCARD_CIPHER, phase, parseError,
                   initPc, inits, pentaOut, buffer, result>>

\* reads over a stream of symbols written one after another
NextStream ==
    \/ Load
    \/ InitSymbolCodec
    \/ \E symbol \in StreamSymbols : WriteNext(symbol)
    \/ \E bytes \in RawChunks : Feed(bytes)
    \/ ReadSymbol

SpecStream == Init /\ [][NextStream]_vars

(* encode and readSymbol together.  encode reads the tables only and       *)
(* changes nothing of the program's state, so taking it while nothing is    *)
(* written or read loses no call of it.                                     *)
EncodeFirst ==
    /\ call.op = "initSymbolCodec"
    /\ in = << >> /\ pending = << >>
    /\ result = Null /\ buffer = [k \in 1..BufLen |-> 0]
    /\ \E symbol \in CallSymbols : Encode(symbol)

NextCalls ==
    \/ Load
    \/ InitSymbolCodec
    \/ EncodeFirst
    \/ \E symbol \in WireSymbols : WriteSymbol(symbol)
    \/ \E bytes \in RawChunks : Feed(bytes)
    \/ ReadSymbol

SpecCalls == Init /\ [][NextCalls]_vars

-----------------------------------------------------------------------------
(* Properties.                                                             *)

\* a completed initSymbolCodec call, and none running
Initialized == inits > 0 /\ initPc.at = "idle"

\* the characters the format comment calls ineligible
Ineligible(c) == c >= 128 \/ c < 32 \/ c = 127 \/ c = ChQuote \/ c = ChBacktick

HasIneligible(symbol) == \E i \in 1..Len(symbol) : Ineligible(symbol[i])

(* C1: with initialised tables, whenever encode returns a non-zero cipher   *)
(* for a string, decodeCipher accepts that cipher and toString of the       *)
(* decoded penta is the string encode was given.                            *)
C1_RoundTrip ==
    (call.op = "encode" /\ Initialized /\ call.ret # 0) =>
        LET d == decodeCipher(Tables, call.ret) IN
        /\ d.ok
        /\ toString(Tables, d.c) = call.symbol
        /\ Len(call.symbol) <= 7
        /\ ~HasIneligible(call.symbol)

\* a 35-bit string with the '/' prefix and a 10-bit character has been ciphered
C1_Witness ==
    /\ call.op = "encode" /\ Initialized /\ call.ret # 0
    /\ UTag(call.ret) = 2
    /\ \E i \in 1..Len(call.symbol) : call.symbol[i] = 97

EligibleChars == {c \in 0..(penta_length - 1) : plength[c] \in {5, 10}}

(* C4: after initSymbolCodec exactly 93 characters are eligible, they are   *)
(* in bijection with the pentas 1..29 and 960..1023, characters inverts     *)
(* pentas on them, every other character has length 64 and penta 0, pentas  *)
(* 30 and 31 belong to no character, and the counter ends at 0x400, so      *)
(* internal-error is never reported.                                        *)
C4_Tables ==
    Initialized =>
        /\ Cardinality(EligibleChars) = 93
        /\ {pentas[c] : c \in EligibleChars} = (1..29) \cup (960..1023)
        /\ \A c \in EligibleChars : characters[pentas[c]] = c
        /\ \A c \in (0..(penta_length - 1)) \ EligibleChars :
              plength[c] = 64 /\ pentas[c] = 0
        /\ \A c \in 0..(penta_length - 1) : pentas[c] \notin {30, 31}
        /\ characters[30] = 0 /\ characters[31] = 0
        /\ parseError # "internal_error"
        /\ call.op = "initSymbolCodec" => call.penta = 1024

C4_Witness == Initialized /\ call.op = "initSymbolCodec" /\ plength[ChStar] = 10

(* C5: encode returns 0 for the null symbol, for every string longer than   *)
(* 7 characters and for every string that holds an ineligible character,    *)
(* wherever it stands; it reports no error.                                 *)
C5_Zero ==
    call.op = "encode" =>
        /\ (call.symbol = Null \/ Len(call.symbol) > 7 \/ HasIneligible(call.symbol))
              => call.ret = 0
        /\ parseError = "none"

\* an ineligible character behind two eligible ones, in a short string
C5_Witness ==
    /\ call.op = "encode" /\ call.symbol # Null
    /\ Len(call.symbol) \in 3..7
    /\ Ineligible(call.symbol[3])
    /\ ~Ineligible(call.symbol[1]) /\ ~Ineligible(call.symbol[2])
    /\ call.ret = 0

(* C8: in every state in which a subscriber can read it, WILDCARD_CIPHER is *)
(* the cipher encode gives "*" with initialised tables, 0x40000000 with the *)
(* 10-bit penta of '*' in its low bits: not 0 and not the cipher of the     *)
(* empty symbol.                                                            *)
C8_Wildcard ==
    ClientMayCall =>
        /\ WILDCARD_CIPHER = encode(InitDone.tables, <<ChStar>>)
        /\ WILDCARD_CIPHER = MkInt(1, InitDone.tables.pentas[ChStar])
        /\ WILDCARD_CIPHER # 0
        /\ WILDCARD_CIPHER # encode(InitDone.tables, << >>)

\* the top two bits of a jInt are 00
TopBitsZero(x) == x >= 0 /\ x < P30

(* C2 as stated: every cipher other than 0 is decoded, and encodePenta of   *)
(* the decoded penta with its covering plen is the cipher again.            *)
C2_Original ==
    (call.op = "decodeCipher" /\ call.cipher # 0) =>
        /\ call.ok
        /\ encodePenta(Tables, pentaOut, plenLoop(pentaOut, 0)) = call.cipher

(* C2: every cipher whose top two bits are not 00 is decoded, and           *)
(* encodePenta of the decoded penta with its covering plen (35 for tags 10  *)
(* and 11) is the cipher again; a cipher whose top two bits are 00 is       *)
(* rejected, 0 or not.                                                      *)
C2_RoundTrip ==
    call.op = "decodeCipher" =>
        /\ ~TopBitsZero(call.cipher) =>
              /\ call.ok
              /\ encodePenta(Tables, pentaOut, plenLoop(pentaOut, 0)) = call.cipher
              /\ call.cipher < 0 => plenLoop(pentaOut, 0) = 35
        /\ TopBitsZero(call.cipher) => ~call.ok

\* a cipher of tag 11 with a non-zero payload has been decoded
C2_Witness ==
    /\ call.op = "decodeCipher" /\ call.ok
    /\ call.cipher < 0 /\ call.cipher >= -P30
    /\ pentaOut.l0 # 0

(* C10: decodeCipher fails, with illegal-argument, exactly when the top two *)
(* bits of the cipher are 00, and then does not write the output penta; for *)
(* tags 01, 10 and 11 the penta is the low 30 bits, (28 << 30) + them and   *)
(* (29 << 30) + them; internal-error is never reported.                     *)
C10_Decode ==
    call.op = "decodeCipher" =>
        /\ call.ok <=> ~TopBitsZero(call.cipher)
        /\ ~call.ok => call.error = "illegal_argument" /\ pentaOut = call.before
        /\ call.ok =>
              /\ call.error = "none"
              /\ pentaOut.l0 = Low30(call.cipher)
              /\ pentaOut.l2 = 0
              /\ pentaOut.l1 = (IF call.cipher >= 0 THEN 0
                                ELSE IF call.cipher < -P30 THEN 28 ELSE 29)
        /\ parseError # "internal_error"

\* a non-zero cipher of tag 00 was refused while the output held a decoded penta
C10_Witness ==
    /\ call.op = "decodeCipher" /\ ~call.ok
    /\ call.cipher # 0
    /\ call.before # LZero /\ pentaOut = call.before

(* C9 as stated: once a first initSymbolCodec call has completed, the       *)
(* tables keep their initialised values in every later state, the states    *)
(* inside a repeated call included, and every encode and decode returns     *)
(* what it returns when run alone.                                          *)
C9_Original ==
    inits > 0 =>
        /\ Tables = InitDone.tables
        /\ call.op = "encode" => call.ret = encode(InitDone.tables, call.symbol)
        /\ call.op = "decodeCipher" =>
              call.ok = decodeCipher(InitDone.tables, call.cipher).ok

(* What does hold of C9: whenever a call has completed and none is running, *)
(* the tables hold the initialised values, the same after a repeated call   *)
(* as after the first, and an encode or decode made in such a state returns *)
(* what it returns when run alone.                                          *)
C9_Idempotent ==
    /\ Initialized => Tables = InitDone.tables
    /\ (call.op = "encode" /\ call.initAt = "idle") =>
          call.ret = encode(InitDone.tables, call.symbol)
    /\ (call.op = "decodeCipher" /\ call.initAt = "idle" /\ call.ok) =>
          pentaOut = decodeCipher(InitDone.tables, call.cipher).c

\* an encode made after a second call has completed
C9_Witness ==
    /\ inits >= 2 /\ initPc.at = "idle"
    /\ call.op = "encode" /\ call.initAt = "idle" /\ call.ret # 0
    /\ call.symbol = <<ChStar>>

\* a readSymbol call that returned
Returned == call.op = "readSymbol" /\ call.threw = "none"

\* a string of 16-bit characters
IsString(v) == v # Null /\ \A k \in 1..Len(v) : v[k] \in 0..65535

(* C3 as stated: what writeSymbol(x) wrote is read back as the cipher       *)
(* encode(x) where that is not 0, and otherwise as 0 with x in the slot.    *)
C3_Original ==
    (call.op = "readSymbol" /\ call.from # Raw) =>
        /\ call.threw = "none"
        /\ LET c == encode(Tables, call.from) IN
           IF c # 0 THEN call.ret = c
           ELSE call.ret = 0 /\ result = call.from

(* C3: what writeSymbol(x) wrote is read back, all of it and no more, as:   *)
(* the cipher encode(x) where that is not 0, the slot left as it was; 0     *)
(* with x in the slot where x is null or a string with no cipher that is    *)
(* longer than the scratch buffer; the length of x, with the characters of  *)
(* x at the start of the scratch buffer and the slot left as it was, where  *)
(* x is a string with no cipher that fits the scratch buffer.               *)
C3_ReadBack ==
    (call.op = "readSymbol" /\ call.from # Raw) =>
        /\ call.threw = "none"
        /\ call.consumed = Len(writeSymbol(Tables, call.from))
        /\ LET x == call.from
               c == encode(Tables, x)
           IN  IF c # 0 THEN call.ret = c /\ result = call.before
               ELSE IF x = Null \/ Len(x) > BufLen
               THEN call.ret = 0 /\ result = x
               ELSE /\ call.ret = Len(x)
                    /\ SubSeq(buffer, 1, Len(x)) = x
                    /\ result = call.before

\* a string with no cipher that fits the scratch buffer has been read back
C3_Witness ==
    /\ Returned /\ call.from = <<ChQuote>>
    /\ call.ret = 1 /\ buffer[1] = ChQuote

(* C6 as stated: a return other than 0 comes with an empty slot, and a      *)
(* return of 0 with a slot that the call has set.                           *)
C6_Original ==
    Returned =>
        /\ call.ret # 0 => result = Null
        /\ call.ret = 0 => call.set /\ (result = Null \/ IsString(result))

(* C6: a readSymbol call that returns other than 0 leaves the slot as it    *)
(* found it, empty only if it was empty before; a call that returns 0 has   *)
(* set the slot, to null or to a string.                                    *)
C6_Slot ==
    Returned =>
        /\ call.ret # 0 => ~call.set /\ result = call.before
        /\ call.ret = 0 => call.set /\ (result = Null \/ IsString(result))

\* a call has returned a cipher with the string of an earlier call in the slot
C6_Witness ==
    /\ Returned /\ call.ret # 0 /\ ~TopBitsZero(call.ret)
    /\ call.before # Null /\ result = call.before

\* the table of first bytes: the ten cases with the bytes of each
DispatchTable ==
    {[case |-> "15-bit", bytes |-> 0..127], [case |-> "30-bit", bytes |-> 128..191],
     [case |-> "reserved1", bytes |-> 192..223], [case |-> "20-bit", bytes |-> 224..239],
     [case |-> "35-bit", bytes |-> 240..247], [case |-> "reserved2", bytes |-> 248..251],
     [case |-> "UTF-8", bytes |-> {252}], [case |-> "CESU-8", bytes |-> {253}],
     [case |-> "0-bit", bytes |-> {254}], [case |-> "void", bytes |-> {255}]}

(* C7: readSymbol throws the reserved-bit-sequence error for the first      *)
(* bytes 0xC0..0xDF and 0xF8..0xFB and for no other; each first byte is in  *)
(* one case of the table of ten, the case that the call takes.              *)
C7_Dispatch ==
    call.op = "readSymbol" =>
        /\ call.threw = "reserved" <=> call.first \in (192..223) \cup (248..251)
        /\ Cardinality(DispatchTable) = 10
        /\ \E d \in DispatchTable :
              /\ call.first \in d.bytes /\ call.tier = d.case
              /\ \A e \in DispatchTable : call.first \in e.bytes => e = d

\* the last byte of the second reserved range has been read and refused
C7_Witness ==
    call.op = "readSymbol" /\ call.first = 251 /\ call.threw = "reserved"

\* the exceptions of readSymbol
Failures == {"reserved", "illegal_length", "beyond_bmp", "io", "undecodable"}

(* C11: a readSymbol call that fails (reserved first byte, illegal length,  *)
(* code point beyond the BMP, error of the byte source) has not assigned    *)
(* the result slot, which holds what it held before the call, and returns   *)
(* no cipher.                                                               *)
C11_NoPartial ==
    (call.op = "readSymbol" /\ call.threw # "none") =>
        /\ call.threw \in Failures
        /\ ~call.set
        /\ result = call.before
        /\ call.ret = 0

(* a call failed on a code point beyond the BMP, after a character was      *)
(* stored in the scratch buffer and with the string of an earlier call in   *)
(* the slot                                                                 *)
C11_Witness ==
    /\ call.op = "readSymbol" /\ call.threw = "beyond_bmp"
    /\ call.before = <<ChA>> /\ result = <<ChA>>
    /\ buffer[1] = ChA

(* C12 as stated: encode("IBM") packs to penta 0x248D and returns cipher    *)
(* 0x4000248D, written as 0x24 0x8D.                                        *)
C12_Original ==
    (call.op = "encode" /\ Initialized /\ call.symbol = IBM) =>
        /\ call.ret = MkInt(1, 9357)
        /\ writeSymbol(Tables, IBM) = <<36, 141>>

(* C12: encode("IBM") packs to penta (9 << 10) | (2 << 5) | 13 = 0x244D and *)
(* returns cipher 0x4000244D, written as 0x24 0x4D in the 15-bit tier.      *)
C12_IBM ==
    (call.op = "encode" /\ Initialized /\ call.symbol = IBM) =>
        /\ pentas[73] = 9 /\ pentas[66] = 2 /\ pentas[77] = 13
        /\ call.ret = MkInt(1, 9 * 1024 + 2 * 32 + 13)
        /\ call.ret = MkInt(1, 9293)
        /\ decodeCipher(Tables, call.ret).c = LFromNat(9293)
        /\ writeSymbol(Tables, IBM) = <<36, 77>>

\* encode("IBM") has been called with initialised tables
C12_Witness ==
    call.op = "encode" /\ Initialized /\ call.symbol = IBM /\ call.ret # 0

(* C13 as stated: after init 'a' has the 10-bit penta 0x3E1, and            *)
(* encode("a") returns cipher 0x400003E1, written as 0x03 0xE1.             *)
C13_Original ==
    (call.op = "encode" /\ Initialized /\ call.symbol = <<97>>) =>
        /\ pentas[97] = 993 /\ plength[97] = 10
        /\ call.ret = MkInt(1, 993)
        /\ writeSymbol(Tables, <<97>>) = <<3, 225>>

(* C13: after init 'a' has the 10-bit penta 0x3E2 (0x3C0 + 34: 29           *)
(* characters of 32..64 and 5 of 91..96 take a penta before it), and        *)
(* encode("a") returns cipher 0x400003E2, written as 0x03 0xE2 in the       *)
(* 15-bit tier; penta 0x3E1 belongs to '_'.                                 *)
C13_LowerA ==
    (call.op = "encode" /\ Initialized /\ call.symbol = <<97>>) =>
        /\ pentas[97] = 994 /\ plength[97] = 10
        /\ pentas[97] = 960 + Cardinality({c \in 32..96 : plength[c] = 10})
        /\ characters[993] = 95
        /\ call.ret = MkInt(1, 994)
        /\ writeSymbol(Tables, <<97>>) = <<3, 226>>

\* encode("a") has been called with initialised tables
C13_Witness ==
    call.op = "encode" /\ Initialized /\ call.symbol = <<97>> /\ call.ret # 0

(* C14: for a penta below 2^35 and the multiple of 5 that covers it as      *)
(* plen, encodePenta returns 0x40000000 + penta where plen <= 30, the low   *)
(* 30 bits under tag 10 where plen = 35 and the top 5 bits are 28, under    *)
(* tag 11 where they are 29, and 0 otherwise; what it returns is 0 or has   *)
(* top two bits other than 00, and its low 30 bits are those of the penta.  *)
C14_Cases ==
    call.op = "encodePenta" =>
        LET lo == call.penta.l0
            hi == call.penta.l1
        IN  /\ call.plen \in {0, 5, 10, 15, 20, 25, 30, 35}
            /\ call.plen <= 30 <=> hi = 0
            /\ call.ret = (CASE hi = 0 -> P30 + lo
                             [] hi = 28 -> (lo - P30) - P30
                             [] hi = 29 -> lo - P30
                             [] OTHER -> 0)
            /\ call.ret = 0 \/ ~TopBitsZero(call.ret)
            /\ call.ret # 0 => Low30(call.ret) = lo

\* a 35-bit penta with the prefix '/' and all low 30 bits set has been ciphered
C14_Witness ==
    /\ call.op = "encodePenta" /\ call.plen = 35
    /\ call.penta.l1 = 28 /\ call.penta.l0 = P30 - 1
    /\ call.ret = -1 - P30

\* a readSymbol call that took a penta tier and read the whole penta
ReadPenta ==
    call.op = "readSymbol" /\ call.tier \in PentaTiers /\ call.threw # "io"

\* bits 30..34 of the penta that the bytes of a penta tier hold
TopFive(bytes, tier) ==
    IF tier = "35-bit" THEN (bytes[1] % 8) * 4 + (bytes[2] \div 64) ELSE 0

(* C15 as stated: every penta that readSymbol obtains from a penta tier     *)
(* gives a cipher other than 0, with tag 01, 10 or 11, and the fallback     *)
(* that stores toString(penta) is never taken.                              *)
C15_Original ==
    ReadPenta =>
        /\ call.threw = "none"
        /\ call.ret # 0 /\ ~TopBitsZero(call.ret)
        /\ ~call.set

(* C15: a penta of the 0-, 15-, 20- and 30-bit tiers, and a penta of the    *)
(* 35-bit tier whose top 5 bits are 0, 28 or 29, gives a cipher other than  *)
(* 0 with tag 01, 10 or 11 and the slot is not assigned; a penta of the     *)
(* 35-bit tier with any other top 5 bits gives cipher 0 and the fallback is *)
(* taken: the call returns 0 with toString(penta) in the slot, or fails     *)
(* where the penta has no string.  The bytes of a written symbol never take *)
(* the fallback.                                                            *)
C15_Fallback ==
    ReadPenta =>
        LET hi == TopFive(call.bytes, call.tier) IN
        /\ hi \in {0, 28, 29} =>
              /\ call.threw = "none"
              /\ call.ret # 0 /\ ~TopBitsZero(call.ret)
              /\ ~call.set
        /\ hi \notin {0, 28, 29} =>
              \/ call.threw = "none" /\ call.ret = 0 /\ call.set /\ IsString(result)
              \/ call.threw = "undecodable" /\ ~call.set
        /\ call.from # Raw => hi \in {0, 28, 29}

\* the fallback has been taken: a 35-bit penta with top 5 bits 3 read as a string
C15_Witness ==
    /\ ReadPenta /\ call.tier = "35-bit"
    /\ TopFive(call.bytes, call.tier) = 3
    /\ call.threw = "none" /\ call.ret = 0
    /\ call.set /\ IsString(result) /\ Len(result) = 4

\* the most bits of a penta that a tier of readSymbol holds
TierBits(tier) ==
    CASE tier = "0-bit" -> 0 [] tier = "15-bit" -> 15 [] tier = "20-bit" -> 20
      [] tier = "30-bit" -> 30 [] tier = "35-bit" -> 35

(* C16: where encode or readSymbol calls encodePenta, plen is a multiple of *)
(* 5 from 0 to 35 and penta is below 2^plen, so plen is 35 wherever it is   *)
(* over 30; the plen loop of readSymbol ends with the least such plen, at   *)
(* most 15, 30, 20 and 35 in the 15-, 30-, 20- and 35-bit tiers.            *)
C16_Args ==
    (call.op \in {"encode", "readSymbol"} /\ call.ep.reached) =>
        /\ call.ep.plen \in {0, 5, 10, 15, 20, 25, 30, 35}
        /\ LShr(call.ep.penta, call.ep.plen) = LZero
        /\ call.ep.plen > 30 => call.ep.plen = 35
        /\ call.op = "readSymbol" =>
              /\ call.ep.plen <= TierBits(call.tier)
              /\ call.ep.plen > 0 => LShr(call.ep.penta, call.ep.plen - 5) # LZero

\* readSymbol has called encodePenta with a penta of 35 bits
C16_Witness ==
    /\ call.op = "readSymbol" /\ call.ep.reached
    /\ call.tier = "35-bit" /\ call.ep.plen = 35
    /\ call.ep.penta.l1 = 31

\* the length that the bytes of a CESU-8 read start with, where it fits a jInt
LengthOf(bytes) == readCompactLong(Tail(bytes)).v.v

(* C17: a readSymbol call that returns has one of three outcomes, told      *)
(* apart by the value returned: a cipher, from a penta tier, with top two   *)
(* bits other than 00; the count of characters, from the CESU-8 branch      *)
(* only, from 1 to the length of the scratch buffer and so with top two     *)
(* bits 00 and not 0; and 0, with the slot assigned.  In the CESU-8 branch  *)
(* the length -1 gives 0 with null, the length 0 gives 0 with "", a length  *)
(* of 1 to the length of the buffer gives the count and a greater length    *)
(* gives 0 with a string of that length.                                    *)
C17_Outcomes ==
    Returned =>
        /\ \/ call.tier \in PentaTiers /\ ~TopBitsZero(call.ret) /\ ~call.set
           \/ /\ call.tier = "CESU-8" /\ call.ret \in 1..BufLen /\ ~call.set
              /\ TopBitsZero(call.ret)
           \/ call.ret = 0 /\ call.set
        /\ call.tier = "CESU-8" =>
              LET n == LengthOf(call.bytes) IN
              /\ n >= -1
              /\ n = -1 => call.ret = 0 /\ result = Null
              /\ n = 0 => call.ret = 0 /\ result = << >>
              /\ n \in 1..BufLen => call.ret = n /\ ~call.set
              /\ n > BufLen => call.ret = 0 /\ IsString(result) /\ Len(result) = n
        /\ call.tier \in {"UTF-8", "void"} => call.ret = 0 /\ call.set

\* the count of a string that fills the scratch buffer has been returned
C17_Witness ==
    /\ Returned /\ call.tier = "CESU-8"
    /\ call.ret = BufLen /\ LengthOf(call.bytes) = BufLen

\* the bytes of the symbols written and not yet read
RECURSIVE StreamOf(_, _)
StreamOf(T, syms) ==
    IF syms = << >> THEN << >>
    ELSE writeSymbol(T, Head(syms)) \o StreamOf(T, Tail(syms))

(* C18: a readSymbol call that does not run out of bytes consumes 2 bytes   *)
(* for a first byte of 0x00..0x7F, 4 for 0x80..0xBF, 3 for 0xE0..0xEF, 5    *)
(* for 0xF0..0xF7 and 1 for 0xFE, 0xFF and a reserved first byte, on which  *)
(* it fails; over symbols of penta tiers written one after another each     *)
(* call consumes the bytes of one symbol, so the bytes left are those of    *)
(* the symbols not yet read and the next call starts at the first byte of   *)
(* the next symbol.                                                         *)
C18_Consumed ==
    /\ (call.op = "readSymbol" /\ call.threw # "io"
            /\ call.tier \notin {"UTF-8", "CESU-8"}) =>
          /\ call.consumed = (CASE call.first < 128 -> 2
                                [] call.first \in 128..191 -> 4
                                [] call.first \in 224..239 -> 3
                                [] call.first \in 240..247 -> 5
                                [] OTHER -> 1)
          /\ call.bytes[1] = call.first
          /\ call.first \in (192..223) \cup (248..251) => call.threw = "reserved"
          /\ call.from # Raw => call.bytes = writeSymbol(Tables, call.from)
    /\ (Initialized /\ Raw \notin {pending[k] : k \in 1..Len(pending)}) =>
          in = StreamOf(Tables, pending)

\* a 35-bit symbol has been read with a 30-bit symbol and a null behind it
C18_Witness ==
    /\ call.op = "readSymbol" /\ call.from # Raw
    /\ call.consumed = 5 /\ call.ret < 0
    /\ Len(pending) = 2 /\ Len(writeSymbol(Tables, pending[1])) = 4
    /\ pending[2] = Null
    /\ Len(in) = 5

====
